---- MODULE Spec2Model ----
(***************************************************************************)
(* A model of static-aws-deploy: the classification of the source tree     *)
(* (upload.ParseFiles, hasFileChanged), the concurrent uploader            *)
(* (upload.Do), the invalidation step (invalidate.Do) and the top-level    *)
(* run (main, readConfig).                                                 *)
(*                                                                         *)
(* Strings that the code matches or trims are sequences of one-character   *)
(* strings; a regular expression is a record (see Compile).                *)
(***************************************************************************)
EXTENDS Integers, Sequences, FiniteSets, TLC

\* ------------------------------------------------------------------ bounds
\* the largest batch handed to upload.Do
MaxFiles == 3
\* the largest configured pool size
MaxPool == 2
\* the latest modification time
MaxTime == 2
\* the largest number of metadata rules
MaxRules == 2

\* ------------------------------------------------------------------- state
VARIABLES
    \* main.go
    pcMain,        \* position of main: "lib" when upload.Do is driven by a library caller
    configFile,    \* the configuration file: readable, well-formed, its content
    env,           \* AWS_ACCESS_KEY_ID and AWS_SECRET_ACCESS_KEY of the environment
    called,        \* the steps main has called, in order
    \* upload.ParseFiles
    cfgS3,         \* config.S3: Source, Ignore, Metadata
    disk,          \* the file system: the entries with path, isDir, content, modTime
    s3Listing,     \* what the listing request to S3 yields
    parseErr,      \* the error ParseFiles returned, NotReturned before
    \* invalidate.Do
    cloudfront,    \* config.Cloudfront: Id, Invalidation
    httpInv,       \* how the invalidation request ends
    requests,      \* number of invalidation requests sent
    invResult,     \* what invalidate.Do returned, NotReturned before
    \* hasFileChanged on its own
    hfc,           \* its arguments and, once applied, its result
    cfgParallel,   \* config.S3.Parallel
    bucketName,    \* config.S3.Bucket.Name
    dryRun,        \* the --dry-run flag
    delta,         \* the --delta flag
    \* upload.Do
    files,         \* the files argument: path -> header list
    pcDo,          \* position of the goroutine that runs upload.Do
    poolSize,      \* poolSize (upload.go:186)
    pool,          \* number of tokens in the pool channel
    errors,        \* content of the errors channel (capacity 1)
    finished,      \* TRUE once the finished channel is closed
    wg,            \* the WaitGroup counter
    pc,            \* position of each task goroutine
    pcCloser,      \* position of the goroutine of upload.go:208
    calls,         \* per path: number of uploadFile invocations
    failed,        \* per path: the error its uploadFile returned, or NoError
    logger,        \* what has been written to the logger, in order
    doResult       \* what upload.Do returned: NotReturned, NoError or an error

\* the variables upload.Do leaves alone
progVars == <<pcMain, configFile, env, called, cfgS3, disk, s3Listing, parseErr,
              cloudfront, httpInv, requests, invResult, hfc>>

vars == <<progVars, cfgParallel, bucketName, dryRun, delta, files, pcDo, poolSize,
          pool, errors, finished, wg, pc, pcCloser, calls, failed, logger, doResult>>

\* -------------------------------------------------------------- values
\* an error value is a pair: its message and the path it is about
NoError == <<"nil", <<>>>>
NotReturned == <<"not returned", <<>>>>
NoBucketError == <<"no bucket specified", <<>>>>

\* the error uploadFile returns for a path (upload.go:242..271)
UploadError(file) == <<"upload failed", file>>

\* the paths of the batches upload.Do is run on, source directory "d"
PathA == <<"d", "/", "a", ".", "h">>
PathB == <<"d", "/", "b", ".", "p">>
PathC == <<"d", "/", "c">>
PathD == <<"d", "/", "s", "/", "e">>
PathE == <<"d", "/", "s", "/", "f", ".", "h">>
\* the upload paths of PathA and PathB under the source "d"
KeyA == <<"a", ".", "h">>
KeyB == <<"b", ".", "p">>
PathList == <<PathA, PathB, PathC, PathD, PathE>>

Min(a, b) == IF a < b THEN a ELSE b

\* the batch with the first n paths, without headers
Batch(n) == [p \in {PathList[i] : i \in 1..Min(n, Len(PathList))} |-> <<>>]

\* capacity of the errors channel (upload.go:189)
ErrorsCap == 1

\* ------------------------------------------------- strings, regexp, time
\* strings.HasPrefix and strings.TrimPrefix
HasPrefix(str, prefix) ==
    /\ Len(prefix) <= Len(str)
    /\ SubSeq(str, 1, Len(prefix)) = prefix
TrimPrefix(str, prefix) ==
    IF HasPrefix(str, prefix) THEN SubSeq(str, Len(prefix) + 1, Len(str)) ELSE str

\* strings.Trim(str, cutset): the leading and trailing characters of cutset removed
RECURSIVE TrimLeft(_, _)
TrimLeft(str, cutset) ==
    IF str # <<>> /\ Head(str) \in cutset THEN TrimLeft(Tail(str), cutset) ELSE str
RECURSIVE TrimRight(_, _)
TrimRight(str, cutset) ==
    IF str # <<>> /\ str[Len(str)] \in cutset
    THEN TrimRight(SubSeq(str, 1, Len(str) - 1), cutset)
    ELSE str
Trim(str, cutset) == TrimRight(TrimLeft(str, cutset), cutset)

\* filepath.Clean on the paths that occur here (no "." or ".." elements, no
\* doubled separators): trailing separators are dropped, "" becomes "."
RECURSIVE Clean(_)
Clean(path) ==
    IF path = <<>> THEN <<".">>
    ELSE IF Len(path) > 1 /\ path[Len(path)] = "/"
         THEN Clean(SubSeq(path, 1, Len(path) - 1))
         ELSE path

\* A regular expression is [valid, lit, atEnd]: the expression does not compile
\* when valid is FALSE; otherwise it is the literal lit, followed by $ when atEnd.
\* regexp.Compile
CompileFails(expr) == ~expr.valid
\* (*Regexp).MatchString: an unanchored search
MatchString(re, str) ==
    \E i \in 0..(Len(str) - Len(re.lit)) :
        /\ SubSeq(str, i + 1, i + Len(re.lit)) = re.lit
        /\ re.atEnd => i + Len(re.lit) = Len(str)

\* time.Time.After on times counted in whole units
After(t, u) == t > u

\* ------------------------------------------------------- upload.ParseFiles
NoSourceError == <<"no source specified", <<>>>>
StatError(source) == <<"could not read source directory", source>>
RegexError(expr) == <<"could not parse regex", expr.lit>>
WalkError(source) == <<"could not read source directory", source>>
ReadFileError(path) == <<"could not read file", path>>
RequestError == <<"could not execute request to aws", <<>>>>
XMLError == <<"could not parse response from aws", <<>>>>
MissingRootError == <<"missing ListBucketResult", <<>>>>
MissingContentsError == <<"missing Contents", <<>>>>
MissingFieldError == <<"Contents is missing ETag, Key or LastModified", <<>>>>
DateError == <<"could not parse date in response from aws", <<>>>>

\* upload.go:123..129: the hex md5 of the file (the content of a file is a
\* character, its digest the two characters "m", content), or a read error
calculateETag(entry) ==
    IF entry.readable
    THEN [etag |-> <<"m", entry.content>>, err |-> NoError]
    ELSE [etag |-> <<>>, err |-> ReadFileError(entry.path)]

\* upload.go:110..120 with After replaced by "not before"
hasFileChangedNotBefore(entry, deltaMap, uploadPath) ==
    LET sum == calculateETag(entry)
    IN  IF sum.err # NoError THEN [changed |-> FALSE, err |-> sum.err]
        ELSE IF uploadPath \in DOMAIN deltaMap
             THEN [changed |-> /\ sum.etag # deltaMap[uploadPath].ETag
                               /\ entry.modTime >= deltaMap[uploadPath].LastModified,
                   err |-> NoError]
             ELSE [changed |-> TRUE, err |-> NoError]

\* upload.go:110..120
hasFileChanged(entry, deltaMap, uploadPath) ==
    LET sum == calculateETag(entry)
    IN  IF sum.err # NoError THEN [changed |-> FALSE, err |-> sum.err]
        ELSE IF uploadPath \in DOMAIN deltaMap
             THEN [changed |-> /\ sum.etag # deltaMap[uploadPath].ETag
                               /\ After(entry.modTime, deltaMap[uploadPath].LastModified),
                   err |-> NoError]
             ELSE [changed |-> TRUE, err |-> NoError]

\* the empty Delta map
EmptyDelta == [key \in {} |-> [ETag |-> <<>>, LastModified |-> 0]]

\* deltaMap[key] = &deltaProp
PutDelta(deltaMap, key, prop) ==
    [k \in DOMAIN deltaMap \cup {key} |-> IF k = key THEN prop ELSE deltaMap[k]]

\* upload.go:160..176 with an element that lacks a field or has a bad date
\* skipped instead of ending the loop with an error
RECURSIVE DeltaLoopSkipping(_, _, _)
DeltaLoopSkipping(contents, i, deltaMap) ==
    IF i > Len(contents) THEN [deltaMap |-> deltaMap, err |-> NoError]
    ELSE LET file == contents[i]
         IN  IF \/ {"LastModified", "ETag", "Key"} \ file.elements # {}
                \/ ~file.LastModified.valid
             THEN DeltaLoopSkipping(contents, i + 1, deltaMap)
             ELSE DeltaLoopSkipping(contents, i + 1,
                      PutDelta(deltaMap, file.Key,
                               [ETag |-> Trim(file.ETag, {"\""}),
                                LastModified |-> file.LastModified.time]))

\* upload.go:160..176: the loop over the Contents elements, from element i on
RECURSIVE DeltaLoop(_, _, _)
DeltaLoop(contents, i, deltaMap) ==
    IF i > Len(contents) THEN [deltaMap |-> deltaMap, err |-> NoError]
    ELSE LET file == contents[i]
         IN  IF {"LastModified", "ETag", "Key"} \ file.elements # {}
             THEN [deltaMap |-> EmptyDelta, err |-> MissingFieldError]
             ELSE IF ~file.LastModified.valid
             THEN [deltaMap |-> EmptyDelta, err |-> DateError]
             ELSE DeltaLoop(contents, i + 1,
                      PutDelta(deltaMap, file.Key,
                               [ETag |-> Trim(file.ETag, {"\""}),
                                LastModified |-> file.LastModified.time]))

\* upload.go:132..178. The listing is what the request to S3 yields: whether the
\* request and the XML parse succeed, whether the root is ListBucketResult, and
\* its Contents elements. etree's SelectElements returns a nil slice when no
\* child has the tag.
getDeltaMap(listing) ==
    IF ~listing.requestOK THEN [deltaMap |-> EmptyDelta, err |-> RequestError]
    ELSE IF ~listing.xmlOK THEN [deltaMap |-> EmptyDelta, err |-> XMLError]
    ELSE IF ~listing.hasRoot THEN [deltaMap |-> EmptyDelta, err |-> MissingRootError]
    ELSE IF listing.contents = <<>>
         THEN [deltaMap |-> EmptyDelta, err |-> MissingContentsError]
         ELSE DeltaLoop(listing.contents, 1, EmptyDelta)

\* upload.go:232..234
getUploadPath(source, filePath) == TrimPrefix(filePath, Clean(source) \o <<"/">>)

\* os.Stat(source) succeeds: the file system holds the path
StatOK(fs, source) == \E entry \in fs : entry.path = Clean(source)

\* the entries filepath.Walk(source, ...) visits: the root and all below it
Walked(fs, source) ==
    {entry \in fs : \/ entry.path = Clean(source)
                    \/ HasPrefix(entry.path, Clean(source) \o <<"/">>)}

\* upload.go:75 without the IsDir test
CandidateWithDirs(entry, re) == ~MatchString(re, entry.path)

\* upload.go:75: the test of the walk function
Candidate(entry, re) == ~entry.isDir /\ ~MatchString(re, entry.path)

\* upload.go:93..103 with the headers of a matching rule put in front of those
\* collected so far
RECURSIVE FileHeadersPrepend(_, _, _, _)
FileHeadersPrepend(file, metadata, i, acc) ==
    IF i > Len(metadata) THEN [headers |-> acc, err |-> NoError]
    ELSE IF CompileFails(metadata[i].Regex)
         THEN [headers |-> <<>>, err |-> RegexError(metadata[i].Regex)]
         ELSE FileHeadersPrepend(file, metadata, i + 1,
                                 IF MatchString(metadata[i].Regex, file)
                                 THEN metadata[i].Headers \o acc
                                 ELSE acc)

\* upload.go:93..103 for one file: the headers of the rules from rule i on, or
\* the error of the first rule that does not compile
RECURSIVE FileHeaders(_, _, _, _)
FileHeaders(file, metadata, i, acc) ==
    IF i > Len(metadata) THEN [headers |-> acc, err |-> NoError]
    ELSE IF CompileFails(metadata[i].Regex)
         THEN [headers |-> <<>>, err |-> RegexError(metadata[i].Regex)]
         ELSE FileHeaders(file, metadata, i + 1,
                          IF MatchString(metadata[i].Regex, file)
                          THEN acc \o metadata[i].Headers
                          ELSE acc)

NoFiles == [file \in {} |-> <<>>]

\* upload.go:92..105: the loop over result; every file meets every rule, so the
\* error does not depend on the order of the map
AddHeaders(result, metadata) ==
    LET bad == {file \in result : FileHeaders(file, metadata, 1, <<>>).err # NoError}
    IN  IF bad # {}
        THEN [files |-> NoFiles,
              err |-> FileHeaders(CHOOSE file \in bad : TRUE, metadata, 1, <<>>).err]
        ELSE [files |-> [file \in result |->
                            FileHeaders(file, metadata, 1, <<>>).headers],
              err |-> NoError]

\* upload.go:74..91: the walk; result is the set of paths it selects
WalkSource(config, isDelta, fs, deltaMap) ==
    LET re == config.Ignore
        seen == {entry \in Walked(fs, config.Source) : Candidate(entry, re)}
        check(entry) == hasFileChanged(entry, deltaMap,
                                       getUploadPath(config.Source, entry.path))
    IN  IF isDelta /\ \E entry \in seen : check(entry).err # NoError
        THEN [result |-> {}, err |-> WalkError(config.Source)]
        ELSE [result |-> {entry.path : entry \in
                            {e \in seen : isDelta => check(e).changed}},
              err |-> NoError]

\* upload.go:54..106
ParseFiles(config, isDelta, fs, listing) ==
    IF config.Source = <<>> THEN [files |-> NoFiles, err |-> NoSourceError]
    ELSE IF ~StatOK(fs, config.Source)
         THEN [files |-> NoFiles, err |-> StatError(config.Source)]
    ELSE IF CompileFails(config.Ignore)
         THEN [files |-> NoFiles, err |-> RegexError(config.Ignore)]
    ELSE LET fetched == IF isDelta THEN getDeltaMap(listing)
                        ELSE [deltaMap |-> EmptyDelta, err |-> NoError]
         IN  IF fetched.err # NoError THEN [files |-> NoFiles, err |-> fetched.err]
             ELSE LET walk == WalkSource(config, isDelta, fs, fetched.deltaMap)
                  IN  IF walk.err # NoError THEN [files |-> NoFiles, err |-> walk.err]
                      ELSE AddHeaders(walk.result, config.Metadata)

\* ------------------------------------------------------------- upload.Do
Paths == DOMAIN files

\* the process is running: log.Fatal, a panic and the return of main end every
\* goroutine
Alive == pcMain \notin {"fatal", "exit", "panic"} /\ pcDo # "panic"

\* fmt.Fprintf(logger, "%d Files to upload (%d concurrently)...\n", ...)
HeaderLine == <<"files to upload", Cardinality(Paths), cfgParallel>>
\* fmt.Fprintf(logger, "%s...Done.\n", file)
DoneLine(file) == <<"done", file>>
\* finishMessage (upload.go:215..221)
FinishMessage ==
    LET base == IF dryRun THEN "Dry Run finished." ELSE "Upload finished."
    IN  IF delta THEN <<"Delta", base>> ELSE <<base>>
\* io.Copy(logger, resp.Body) in uploadFile: the response body, possibly empty
BodyLine(file) == <<"response", file>>

\* upload.go:186..192 without the bucket check of upload.go:183..185
DoEntryNoBucketCheck ==
    /\ Alive
    /\ pcDo = "entry"
    /\ poolSize' = cfgParallel
    /\ doResult' = doResult
    /\ pool' = 0
    /\ errors' = <<>>
    /\ finished' = FALSE
    /\ wg' = 0
    /\ logger' = Append(logger, HeaderLine)
    /\ pcDo' = "loop"
    /\ UNCHANGED <<progVars, cfgParallel, bucketName, dryRun, delta, files, pc,
                   pcCloser, calls, failed>>

\* upload.go:183..192: the bucket check, the channels, the first line
DoEntry ==
    /\ Alive
    /\ pcDo = "entry"
    /\ IF bucketName = ""
       THEN /\ doResult' = NoBucketError
            /\ pcDo' = "returned"
            /\ UNCHANGED <<poolSize, pool, errors, finished, wg, logger>>
       ELSE /\ poolSize' = cfgParallel
            /\ doResult' = doResult
            /\ IF cfgParallel < 0
               THEN \* make(chan struct{}, poolSize) panics for a negative size
                    /\ pcDo' = "panic"
                    /\ UNCHANGED <<pool, errors, finished, wg, logger>>
               ELSE /\ pool' = 0
                    /\ errors' = <<>>
                    /\ finished' = FALSE
                    /\ wg' = 0
                    /\ logger' = Append(logger, HeaderLine)
                    /\ pcDo' = "loop"
    /\ UNCHANGED <<progVars, cfgParallel, bucketName, dryRun, delta, files, pc,
                   pcCloser, calls, failed>>

\* upload.go:193..195: one iteration of the range loop (map order is arbitrary):
\* wg.Add(1) and the go statement
DoLaunch(file) ==
    /\ Alive
    /\ pcDo = "loop"
    /\ pc[file] = "idle"
    /\ wg' = wg + 1
    /\ pc' = [pc EXCEPT ![file] = "acquire"]
    /\ UNCHANGED <<progVars, cfgParallel, bucketName, dryRun, delta, files, pcDo,
                   poolSize, pool, errors, finished, pcCloser, calls, failed,
                   logger, doResult>>

\* upload.go:208..211: the loop is over, the goroutine that waits is started
DoSpawnCloser ==
    /\ Alive
    /\ pcDo = "loop"
    /\ \A file \in Paths : pc[file] # "idle"
    /\ pcCloser' = "wait"
    /\ pcDo' = "select"
    /\ UNCHANGED <<progVars, cfgParallel, bucketName, dryRun, delta, files,
                   poolSize, pool, errors, finished, wg, pc, calls, failed,
                   logger, doResult>>

\* upload.go:209..210 without wg.Wait(): finished is closed at once
CloserCloseNoWait ==
    /\ Alive
    /\ pcCloser = "wait"
    /\ finished' = TRUE
    /\ pcCloser' = "done"
    /\ UNCHANGED <<progVars, cfgParallel, bucketName, dryRun, delta, files, pcDo,
                   poolSize, pool, errors, wg, pc, calls, failed, logger, doResult>>

\* upload.go:209..210: wg.Wait() returns when the counter is zero; close(finished)
CloserClose ==
    /\ Alive
    /\ pcCloser = "wait"
    /\ wg = 0
    /\ finished' = TRUE
    /\ pcCloser' = "done"
    /\ UNCHANGED <<progVars, cfgParallel, bucketName, dryRun, delta, files, pcDo,
                   poolSize, pool, errors, wg, pc, calls, failed, logger, doResult>>

\* upload.go:214..222, 228: the select takes the finished case
DoSelectFinished ==
    /\ Alive
    /\ pcDo = "select"
    /\ finished
    /\ logger' = Append(logger, FinishMessage)
    /\ doResult' = NoError
    /\ pcDo' = "returned"
    /\ UNCHANGED <<progVars, cfgParallel, bucketName, dryRun, delta, files,
                   poolSize, pool, errors, finished, wg, pc, pcCloser, calls, failed>>

\* upload.go:223..228: the select takes the errors case
DoSelectError ==
    /\ Alive
    /\ pcDo = "select"
    /\ errors # <<>>
    /\ errors' = Tail(errors)
    /\ doResult' = Head(errors)
    /\ pcDo' = "returned"
    /\ UNCHANGED <<progVars, cfgParallel, bucketName, dryRun, delta, files,
                   poolSize, pool, finished, wg, pc, pcCloser, calls, failed, logger>>

\* TaskAcquire without the capacity of the pool channel: every send succeeds
TaskAcquireUnbounded(file) ==
    /\ Alive
    /\ pc[file] = "acquire"
    /\ pool' = pool + 1
    /\ pc' = [pc EXCEPT ![file] = IF dryRun THEN "log" ELSE "upload"]
    /\ calls' = [calls EXCEPT ![file] = IF dryRun THEN @ ELSE @ + 1]
    /\ UNCHANGED <<progVars, cfgParallel, bucketName, dryRun, delta, files, pcDo,
                   poolSize, errors, finished, wg, pcCloser, failed, logger, doResult>>

\* TaskAcquire without the dryRun test: uploadFile is always entered
TaskAcquireNoDryRun(file) ==
    /\ Alive
    /\ pc[file] = "acquire"
    /\ pool < poolSize
    /\ pool' = pool + 1
    /\ pc' = [pc EXCEPT ![file] = "upload"]
    /\ calls' = [calls EXCEPT ![file] = @ + 1]
    /\ UNCHANGED <<progVars, cfgParallel, bucketName, dryRun, delta, files, pcDo,
                   poolSize, errors, finished, wg, pcCloser, failed, logger, doResult>>

\* upload.go:197..200: pool <- struct{}{} needs room in the channel (an
\* unbuffered pool has no receiver at this point); then uploadFile is entered
\* unless dryRun
TaskAcquire(file) ==
    /\ Alive
    /\ pc[file] = "acquire"
    /\ pool < poolSize
    /\ pool' = pool + 1
    /\ pc' = [pc EXCEPT ![file] = IF dryRun THEN "log" ELSE "upload"]
    /\ calls' = [calls EXCEPT ![file] = IF dryRun THEN @ ELSE @ + 1]
    /\ UNCHANGED <<progVars, cfgParallel, bucketName, dryRun, delta, files, pcDo,
                   poolSize, errors, finished, wg, pcCloser, failed, logger, doResult>>

\* upload.go:238..274: uploadFile returns nil, after copying the response body
\* to the logger, or returns an error
TaskUploadReturn(file) ==
    /\ Alive
    /\ pc[file] = "upload"
    /\ \E ok \in BOOLEAN :
         IF ok
         THEN /\ logger' = Append(logger, BodyLine(file))
              /\ pc' = [pc EXCEPT ![file] = "log"]
              /\ failed' = failed
         ELSE /\ failed' = [failed EXCEPT ![file] = UploadError(file)]
              /\ pc' = [pc EXCEPT ![file] = "sendErr"]
              /\ logger' = logger
    /\ UNCHANGED <<progVars, cfgParallel, bucketName, dryRun, delta, files, pcDo,
                   poolSize, pool, errors, finished, wg, pcCloser, calls, doResult>>

\* upload.go:201: errors <- err blocks while the channel is full
TaskSendError(file) ==
    /\ Alive
    /\ pc[file] = "sendErr"
    /\ Len(errors) < ErrorsCap
    /\ errors' = Append(errors, failed[file])
    /\ pc' = [pc EXCEPT ![file] = "log"]
    /\ UNCHANGED <<progVars, cfgParallel, bucketName, dryRun, delta, files, pcDo,
                   poolSize, pool, finished, wg, pcCloser, calls, failed, logger,
                   doResult>>

\* upload.go:204
TaskLog(file) ==
    /\ Alive
    /\ pc[file] = "log"
    /\ logger' = Append(logger, DoneLine(file))
    /\ pc' = [pc EXCEPT ![file] = "release"]
    /\ UNCHANGED <<progVars, cfgParallel, bucketName, dryRun, delta, files, pcDo,
                   poolSize, pool, errors, finished, wg, pcCloser, calls, failed,
                   doResult>>

\* upload.go:198: the deferred <-pool
TaskRelease(file) ==
    /\ Alive
    /\ pc[file] = "release"
    /\ pool' = pool - 1
    /\ pc' = [pc EXCEPT ![file] = "wgDone"]
    /\ UNCHANGED <<progVars, cfgParallel, bucketName, dryRun, delta, files, pcDo,
                   poolSize, errors, finished, wg, pcCloser, calls, failed, logger,
                   doResult>>

\* the task ends without the deferred wg.Done() of upload.go:196
TaskWgDoneForgotten(file) ==
    /\ Alive
    /\ pc[file] = "wgDone"
    /\ pc' = [pc EXCEPT ![file] = "done"]
    /\ UNCHANGED <<progVars, cfgParallel, bucketName, dryRun, delta, files, pcDo,
                   poolSize, pool, errors, finished, wg, pcCloser, calls, failed,
                   logger, doResult>>

\* upload.go:196: the deferred wg.Done()
TaskWgDone(file) ==
    /\ Alive
    /\ pc[file] = "wgDone"
    /\ wg' = wg - 1
    /\ pc' = [pc EXCEPT ![file] = "done"]
    /\ UNCHANGED <<progVars, cfgParallel, bucketName, dryRun, delta, files, pcDo,
                   poolSize, pool, errors, finished, pcCloser, calls, failed, logger,
                   doResult>>

\* the state of upload.Do before it is entered with the given batch
DoIdle(batch) ==
    /\ files = batch
    /\ poolSize = 0
    /\ pool = 0
    /\ errors = <<>>
    /\ finished = FALSE
    /\ wg = 0
    /\ pc = [file \in DOMAIN batch |-> "idle"]
    /\ pcCloser = "idle"
    /\ calls = [file \in DOMAIN batch |-> 0]
    /\ failed = [file \in DOMAIN batch |-> NoError]
    /\ logger = <<>>
    /\ doResult = NotReturned

DoNext ==
    \/ DoEntry
    \/ \E file \in Paths : DoLaunch(file)
    \/ DoSpawnCloser
    \/ CloserClose
    \/ DoSelectFinished
    \/ DoSelectError
    \/ \E file \in Paths : TaskAcquire(file)
    \/ \E file \in Paths : TaskUploadReturn(file)
    \/ \E file \in Paths : TaskSendError(file)
    \/ \E file \in Paths : TaskLog(file)
    \/ \E file \in Paths : TaskRelease(file)
    \/ \E file \in Paths : TaskWgDone(file)

\* values of the variables of the steps that do not run
NoConfigFile == [status |-> "ok", Parallel |-> 1, Accesskey |-> "ak", Key |-> "sk"]
NoEnv == [AWS_ACCESS_KEY_ID |-> "", AWS_SECRET_ACCESS_KEY |-> ""]
NoS3 == [Source |-> <<>>, Ignore |-> [valid |-> TRUE, lit |-> <<>>, atEnd |-> FALSE],
         Metadata |-> <<>>]
NoListing == [requestOK |-> FALSE, xmlOK |-> FALSE, hasRoot |-> FALSE, contents |-> <<>>]
NoCloudfront == [Id |-> "", Invalidation |-> <<>>]
NoHfc == [applied |-> FALSE, entry |-> <<>>, deltaMap |-> <<>>, uploadPath |-> <<>>,
          changed |-> FALSE, err |-> NotReturned]

MainIdle ==
    /\ configFile = NoConfigFile
    /\ env = NoEnv
    /\ called = <<>>
InvalidateIdle ==
    /\ cloudfront = NoCloudfront
    /\ httpInv = "none"
    /\ requests = 0
    /\ invResult = NotReturned
ParseIdle ==
    /\ cfgS3 = NoS3
    /\ disk = {}
    /\ s3Listing = NoListing
    /\ parseErr = NotReturned

\* upload.Do called by a library caller with a pool size P >= 1; delta, which
\* only selects the text of the last line, is varied in the runs of main
Init ==
    /\ pcMain = "lib"
    /\ MainIdle
    /\ ParseIdle
    /\ InvalidateIdle
    /\ hfc = NoHfc
    /\ cfgParallel \in 1..MaxPool
    /\ bucketName \in {"", "bucket"}
    /\ dryRun \in BOOLEAN
    /\ delta = FALSE
    /\ \E n \in 0..MaxFiles : DoIdle(Batch(n))
    /\ pcDo = "entry"

Next == DoNext

Spec == Init /\ [][Next]_vars

\* the paths a batch can hold
BatchPaths == {PathList[i] : i \in 1..Min(MaxFiles, Len(PathList))}

\* The Go scheduler runs every goroutine that can take a step, a channel serves
\* its blocked senders first come first served (strong fairness of the sends),
\* and every uploadFile call returns.
DoFairness ==
    /\ WF_vars(DoEntry)
    /\ WF_vars(\E file \in Paths : DoLaunch(file))
    /\ WF_vars(DoSpawnCloser)
    /\ WF_vars(CloserClose)
    /\ WF_vars(DoSelectFinished \/ DoSelectError)
    /\ \A file \in BatchPaths :
         /\ SF_vars(file \in Paths /\ TaskAcquire(file))
         /\ WF_vars(file \in Paths /\ TaskUploadReturn(file))
         /\ SF_vars(file \in Paths /\ TaskSendError(file))
         /\ WF_vars(file \in Paths /\ TaskLog(file))
         /\ WF_vars(file \in Paths /\ TaskRelease(file))
         /\ WF_vars(file \in Paths /\ TaskWgDone(file))

FairSpec == Init /\ [][Next]_vars /\ DoFairness

\* ------------------------------------------------------ claims on upload.Do
\* the tasks inside uploadFile: entered, not yet returned
Active == {file \in Paths : pc[file] = "upload"}
\* the tasks whose uploadFile returned an error
Failed == {file \in Paths : failed[file] # NoError}
\* the number of "done" notices for a path in the logger
DoneCount(file) == Cardinality({i \in 1..Len(logger) : logger[i] = DoneLine(file)})

\* C1: with pool size k >= 1, at most k tasks are inside uploadFile at any time
C1_PoolBound ==
    cfgParallel >= 1 => Cardinality(Active) <= cfgParallel

\* C1 witness: the pool is full of active transfers and another task waits
C1_Witness ==
    /\ Cardinality(Active) = cfgParallel
    /\ \E file \in Paths : pc[file] = "acquire"

\* C2: when upload.Do has returned, every task it launched has completed
C2_NoTaskLeak ==
    pcDo = "returned" => \A file \in Paths : pc[file] \in {"idle", "done"}

\* C3: in a non-dry run in which some transfer failed, upload.Do returns one of
\* the errors of the failing tasks, and it returns nil only when no task failed
C3_ErrorReported ==
    (pcDo = "returned" /\ ~dryRun /\ bucketName # "")
        => IF Failed = {}
           THEN doResult = NoError
           ELSE doResult \in {failed[file] : file \in Failed}

\* C4: every task eventually writes exactly one "done" notice for its path, and
\* writes it after its uploadFile call has returned
C4_DoneNotice ==
    /\ [](\A file \in Paths :
            /\ DoneCount(file) <= 1
            /\ DoneCount(file) = 1 => pc[file] \in {"release", "wgDone", "done"})
    /\ (bucketName # "") => <>(\A file \in Paths : DoneCount(file) = 1)

\* C5 (as stated): a dry run never invokes uploadFile and always returns nil
C5_DryRunAlwaysSucceeds ==
    dryRun => /\ \A file \in Paths : calls[file] = 0
              /\ pcDo = "returned" => doResult = NoError

\* C5 (amended): a dry run never invokes uploadFile; with a bucket name it only
\* ever returns nil, and without one it returns the "no bucket specified" error
C5_DryRun ==
    dryRun => /\ \A file \in Paths : calls[file] = 0 /\ pc[file] # "upload"
              /\ (pcDo = "returned" /\ bucketName # "") => doResult = NoError
              /\ (pcDo = "returned" /\ bucketName = "") => doResult = NoBucketError

\* C5 witness: a dry run of a batch of at least two files has returned nil
C5_Witness ==
    /\ dryRun
    /\ Cardinality(Paths) >= 2
    /\ \A file \in Paths : pc[file] = "done"
    /\ pcDo = "returned"
    /\ doResult = NoError

\* C14: when upload.Do has returned nil, the finish message is in the logger, it
\* is the last line, and the "done" notice of every file of the batch precedes it
C14_SummaryIsLast ==
    (pcDo = "returned" /\ doResult = NoError) =>
        /\ logger # <<>>
        /\ logger[Len(logger)] = FinishMessage
        /\ \A file \in Paths :
              \E i \in 1..(Len(logger) - 1) : logger[i] = DoneLine(file)
        /\ \A i \in 1..(Len(logger) - 1) : logger[i] # FinishMessage

\* C14 witness: a real upload of two files or more has returned nil
C14_Witness ==
    /\ pcDo = "returned"
    /\ doResult = NoError
    /\ ~dryRun
    /\ Cardinality(Paths) >= 2
    /\ \A file \in Paths : calls[file] = 1

\* C15: with an empty bucket name upload.Do launches no task, calls uploadFile
\* for no file, writes nothing to the logger, and returns the "no bucket
\* specified" error
C15_NoBucketNoWork ==
    bucketName = "" =>
        /\ \A file \in Paths : pc[file] = "idle" /\ calls[file] = 0
        /\ wg = 0
        /\ pcCloser = "idle"
        /\ logger = <<>>
        /\ pcDo \in {"entry", "returned"}
        /\ pcDo = "returned" => doResult = NoBucketError

\* C15 witness: upload.Do has returned for a batch of files and no bucket name
C15_Witness ==
    /\ bucketName = ""
    /\ Paths # {}
    /\ pcDo = "returned"
    /\ doResult = NoBucketError

\* C18: with a pool size of one or more and uploadFile calls that return,
\* upload.Do eventually returns, whatever the batch and whichever tasks fail
C18_DoReturns == <>(pcDo = "returned")

\* C18 witness: upload.Do has returned an upload error in a run in which two
\* tasks or more failed
C18_Witness ==
    /\ pcDo = "returned"
    /\ cfgParallel >= 1
    /\ doResult \notin {NoError, NoBucketError}
    /\ Cardinality(Failed) >= 2

\* the tasks that hold a slot of the pool: sent to pool, not yet received from it
HoldsSlot(file) == file \in Paths /\ pc[file] \in {"upload", "sendErr", "log", "release"}

\* C19: every task that has acquired a slot of the pool eventually releases it,
\* and every task of the batch eventually gets a slot
C19_SlotsReleased ==
    \A file \in BatchPaths :
        /\ HoldsSlot(file) ~> (file \in Paths /\ pc[file] \in {"wgDone", "done"})
        /\ (file \in Paths /\ pc[file] = "acquire")
              ~> (file \in Paths /\ pc[file] # "acquire")

\* ------------------------------------------------------------ invalidate.Do
NoPathsError == <<"no invalidation paths specified", <<>>>>
NoDistributionError == <<"no distribution specified", <<>>>>
ResponseError == <<"could not read response from aws", <<>>>>
WriteXMLError == <<"could not write xml", <<>>>>

\* how the invalidation request can end: answered, not answered (client.Do
\* returns an error and no response), answered with a body that cannot be read,
\* or the request body cannot be written to the pipe
HttpOutcomes == {"ok", "requestFails", "bodyFails", "writeFails"}

\* upload.go:338..368: one POST; without a response, resp.Body of line 359
\* dereferences nil and the process panics
invalidate(http) ==
    CASE http = "ok" ->
           [err |-> NoError, sent |-> 1, lines |-> <<<<"response">>>>, panics |-> FALSE]
      [] http = "requestFails" ->
           [err |-> NotReturned, sent |-> 1, lines |-> <<>>, panics |-> TRUE]
      [] http = "bodyFails" ->
           [err |-> ResponseError, sent |-> 1, lines |-> <<>>, panics |-> FALSE]
      [] http = "writeFails" ->
           [err |-> WriteXMLError, sent |-> 1, lines |-> <<<<"response">>>>,
            panics |-> FALSE]

\* upload.go:298..317
invalidateDo(config, isDryRun, http) ==
    IF Len(config.Invalidation) = 0
    THEN [err |-> NoPathsError, sent |-> 0, lines |-> <<>>, panics |-> FALSE]
    ELSE IF config.Id = ""
    THEN [err |-> NoDistributionError, sent |-> 0, lines |-> <<>>, panics |-> FALSE]
    ELSE LET first == <<<<"Invalidating", Len(config.Invalidation)>>>>
         IN  IF isDryRun
             THEN [err |-> NoError, sent |-> 0,
                   lines |-> first \o [i \in 1..Len(config.Invalidation) |->
                                          <<"path", config.Invalidation[i]>>],
                   panics |-> FALSE]
             ELSE LET r == invalidate(http)
                  IN  [r EXCEPT !.lines = first \o r.lines]

\* ------------------------------------------------------------------- main
\* main.go:71..73 without the default: Parallel is taken as configured
NormalParallelAsConfigured(parallel) == parallel

\* main.go:71..73
NormalParallel(parallel) == IF parallel <= 0 THEN 1 ELSE parallel

\* main.go:74..79
Credential(configured, fromEnv) == IF configured = "" THEN fromEnv ELSE configured

\* main.go:41..44, 62..88: readConfig, and log.Fatal on its error
MainReadConfig ==
    /\ pcMain = "readConfig"
    /\ IF configFile.status # "ok"
       THEN pcMain' = "fatal" /\ cfgParallel' = cfgParallel
       ELSE /\ cfgParallel' = NormalParallel(configFile.Parallel)
            /\ IF \/ Credential(configFile.Key, env.AWS_SECRET_ACCESS_KEY) = ""
                  \/ Credential(configFile.Accesskey, env.AWS_ACCESS_KEY_ID) = ""
               THEN pcMain' = "fatal"
               ELSE pcMain' = "ParseFiles"
    /\ UNCHANGED <<configFile, env, called, cfgS3, disk, s3Listing, parseErr,
                   cloudfront, httpInv, requests, invResult, hfc>>
    /\ UNCHANGED <<bucketName, dryRun, delta, files, pcDo, poolSize, pool, errors,
                   finished, wg, pc, pcCloser, calls, failed, logger, doResult>>

\* main.go:49..53: ParseFiles, log.Fatal on its error, else upload.Do is called
MainParseFiles ==
    /\ pcMain = "ParseFiles"
    /\ LET r == ParseFiles(cfgS3, delta, disk, s3Listing)
       IN  /\ parseErr' = r.err
           /\ IF r.err # NoError
              THEN /\ called' = Append(called, "ParseFiles")
                   /\ pcMain' = "fatal"
                   /\ UNCHANGED <<pcDo, files, pc, calls, failed>>
              ELSE /\ called' = called \o <<"ParseFiles", "upload.Do">>
                   /\ pcMain' = "uploadDo"
                   /\ pcDo' = "entry"
                   /\ files' = r.files
                   /\ pc' = [file \in DOMAIN r.files |-> "idle"]
                   /\ calls' = [file \in DOMAIN r.files |-> 0]
                   /\ failed' = [file \in DOMAIN r.files |-> NoError]
    /\ UNCHANGED <<configFile, env, cfgS3, disk, s3Listing, cloudfront, httpInv,
                   requests, invResult, hfc>>
    /\ UNCHANGED <<cfgParallel, bucketName, dryRun, delta, poolSize, pool, errors,
                   finished, wg, pcCloser, logger, doResult>>

\* main.go:56 with the error of upload.Do ignored
MainAfterUploadIgnoringError ==
    /\ pcMain = "uploadDo"
    /\ pcDo = "returned"
    /\ called' = Append(called, "invalidate.Do")
    /\ pcMain' = "invalidateDo"
    /\ UNCHANGED <<configFile, env, cfgS3, disk, s3Listing, parseErr, cloudfront,
                   httpInv, requests, invResult, hfc>>
    /\ UNCHANGED <<cfgParallel, bucketName, dryRun, delta, files, pcDo, poolSize,
                   pool, errors, finished, wg, pc, pcCloser, calls, failed, logger,
                   doResult>>

\* main.go:53..56: upload.Do has returned: log.Fatal on its error, else
\* invalidate.Do is called
MainAfterUpload ==
    /\ pcMain = "uploadDo"
    /\ pcDo = "returned"
    /\ IF doResult # NoError
       THEN pcMain' = "fatal" /\ called' = called
       ELSE pcMain' = "invalidateDo" /\ called' = Append(called, "invalidate.Do")
    /\ UNCHANGED <<configFile, env, cfgS3, disk, s3Listing, parseErr, cloudfront,
                   httpInv, requests, invResult, hfc>>
    /\ UNCHANGED <<cfgParallel, bucketName, dryRun, delta, files, pcDo, poolSize,
                   pool, errors, finished, wg, pc, pcCloser, calls, failed, logger,
                   doResult>>

\* main.go:56..59: invalidate.Do runs; log.Fatal on its error, else main returns
MainInvalidate ==
    /\ pcMain = "invalidateDo"
    /\ \E http \in HttpOutcomes :
         LET r == invalidateDo(cloudfront, dryRun, http)
         IN  /\ httpInv' = http
             /\ invResult' = r.err
             /\ requests' = requests + r.sent
             /\ logger' = logger \o r.lines
             /\ pcMain' = IF r.panics THEN "panic"
                          ELSE IF r.err # NoError THEN "fatal" ELSE "exit"
    /\ UNCHANGED <<configFile, env, called, cfgS3, disk, s3Listing, parseErr,
                   cloudfront, hfc>>
    /\ UNCHANGED <<cfgParallel, bucketName, dryRun, delta, files, pcDo, poolSize,
                   pool, errors, finished, wg, pc, pcCloser, calls, failed, doResult>>

\* the state in which upload.Do is not running
DoNotRunning ==
    /\ cfgParallel = 1
    /\ bucketName = "bucket"
    /\ DoIdle(NoFiles)
    /\ pcDo = "idle"

\* ------------------------------------------------------ ParseFiles alone
\* headers
HeaderHtml == <<"Content-Type", "text/html">>
HeaderCache == <<"Cache-Control", "public">>
HeaderPng == <<"Content-Type", "image/png">>

\* regular expressions: one that does not compile, \.h$, \.p$, s/, d/ and z
BadRegex == [valid |-> FALSE, lit |-> <<"(">>, atEnd |-> FALSE]
HtmlRegex == [valid |-> TRUE, lit |-> <<".", "h">>, atEnd |-> TRUE]
PngRegex == [valid |-> TRUE, lit |-> <<".", "p">>, atEnd |-> TRUE]
SubdirRegex == [valid |-> TRUE, lit |-> <<"s", "/">>, atEnd |-> FALSE]
SourceRegex == [valid |-> TRUE, lit |-> <<"d", "/">>, atEnd |-> FALSE]
NoneRegex == [valid |-> TRUE, lit |-> <<"z">>, atEnd |-> FALSE]

IgnorePatterns == {BadRegex, PngRegex, SubdirRegex, NoneRegex}
Rules ==
    {[Regex |-> HtmlRegex, Headers |-> <<HeaderHtml>>],
     [Regex |-> SourceRegex, Headers |-> <<HeaderCache, HeaderHtml>>],
     [Regex |-> PngRegex, Headers |-> <<HeaderCache, HeaderPng>>],
     [Regex |-> BadRegex, Headers |-> <<HeaderCache>>]}
\* the metadata lists of at most n rules
MetadataLists(n) == UNION {[1..k -> Rules] : k \in 0..n}
Sources == {<<>>, <<"d">>, <<"d", "/">>, <<"x">>}

\* the directories and files of the source tree "d"
DirEntry(path) ==
    [path |-> path, isDir |-> TRUE, content |-> "", modTime |-> 0, readable |-> TRUE]
FileEntry(path, content, modTime) ==
    [path |-> path, isDir |-> FALSE, content |-> content, modTime |-> modTime,
     readable |-> TRUE]
TreeDirs == {DirEntry(<<"d">>), DirEntry(<<"d", "/", "s">>)}
TreeFiles == {FileEntry(PathA, "x", 1), FileEntry(PathB, "x", 1),
              FileEntry(PathE, "y", 1)}
Trees == {TreeDirs \cup chosen : chosen \in SUBSET TreeFiles}

\* the Contents elements of a listing
ContentsEntry(key, content, time) ==
    [elements |-> {"LastModified", "ETag", "Key"}, Key |-> key,
     ETag |-> <<"\"", "m", content, "\"">>,
     LastModified |-> [valid |-> TRUE, time |-> time]]
GoodListing(contents) ==
    [requestOK |-> TRUE, xmlOK |-> TRUE, hasRoot |-> TRUE, contents |-> contents]
Listings ==
    {[requestOK |-> FALSE, xmlOK |-> FALSE, hasRoot |-> FALSE, contents |-> <<>>],
     [requestOK |-> TRUE, xmlOK |-> FALSE, hasRoot |-> FALSE, contents |-> <<>>],
     [requestOK |-> TRUE, xmlOK |-> TRUE, hasRoot |-> FALSE, contents |-> <<>>],
     GoodListing(<<>>),
     GoodListing(<<ContentsEntry(KeyA, "x", 0)>>),
     GoodListing(<<ContentsEntry(KeyA, "y", 0), ContentsEntry(KeyB, "y", 1)>>),
     GoodListing(<<ContentsEntry(KeyA, "y", 0), ContentsEntry(KeyA, "y", 2)>>),
     GoodListing(<<[ContentsEntry(KeyA, "x", 0) EXCEPT !.elements = {"ETag", "Key"}]>>),
     GoodListing(<<ContentsEntry(KeyB, "x", 0),
                   [ContentsEntry(KeyA, "x", 0) EXCEPT !.LastModified.valid = FALSE]>>)}

\* ParseFiles is about to be called
ParseInit ==
    /\ pcMain = "ParseFiles"
    /\ MainIdle
    /\ InvalidateIdle
    /\ hfc = NoHfc
    /\ dryRun = FALSE
    /\ DoNotRunning
    /\ parseErr = NotReturned
    /\ \E source \in Sources, ignore \in IgnorePatterns,
          metadata \in MetadataLists(MaxRules) :
          cfgS3 = [Source |-> source, Ignore |-> ignore, Metadata |-> metadata]
    /\ disk \in Trees
    /\ \/ delta = FALSE /\ s3Listing = NoListing
       \/ delta = TRUE /\ s3Listing \in Listings

ParseSpec == ParseInit /\ [][MainParseFiles]_vars

\* ------------------------------------------------------- the whole program
\* the configuration files and environments of the runs
ConfigScenes ==
    {<<[status |-> "ok", Parallel |-> p, Accesskey |-> "ak", Key |-> "sk"], NoEnv>> :
        p \in (0 - 1)..MaxPool}
    \cup
    {<<[status |-> "ok", Parallel |-> 1, Accesskey |-> "", Key |-> ""],
       [AWS_ACCESS_KEY_ID |-> "ek", AWS_SECRET_ACCESS_KEY |-> "es"]>>,
     <<[status |-> "ok", Parallel |-> 1, Accesskey |-> "ak", Key |-> ""], NoEnv>>,
     <<[status |-> "unreadable", Parallel |-> 0, Accesskey |-> "", Key |-> ""], NoEnv>>,
     <<[status |-> "malformed", Parallel |-> 0, Accesskey |-> "", Key |-> ""], NoEnv>>}
S3Scenes ==
    [Source : {<<"d">>}, Ignore : {BadRegex, NoneRegex},
     Metadata : {<<>>, <<[Regex |-> HtmlRegex, Headers |-> <<HeaderHtml>>]>>}]
MainTrees == {TreeDirs, TreeDirs \cup {FileEntry(PathA, "x", 1), FileEntry(PathB, "x", 1)}}
CloudfrontScenes ==
    {[Id |-> "dist", Invalidation |-> <<>>],
     [Id |-> "dist", Invalidation |-> <<"/", "/archive/*">>],
     [Id |-> "", Invalidation |-> <<"/">>]}

\* main is started
MainInit ==
    /\ pcMain = "readConfig"
    /\ \E scene \in ConfigScenes : configFile = scene[1] /\ env = scene[2]
    /\ called = <<>>
    /\ cfgS3 \in S3Scenes
    /\ disk \in MainTrees
    /\ \/ delta = FALSE /\ s3Listing = NoListing
       \/ delta = TRUE /\ s3Listing \in {NoListing, GoodListing(<<ContentsEntry(KeyA, "x", 0)>>)}
    /\ parseErr = NotReturned
    /\ cloudfront \in CloudfrontScenes
    /\ httpInv = "none"
    /\ requests = 0
    /\ invResult = NotReturned
    /\ hfc = NoHfc
    /\ cfgParallel = configFile.Parallel
    /\ bucketName \in {"", "bucket"}
    /\ dryRun \in BOOLEAN
    /\ DoIdle(NoFiles)
    /\ pcDo = "idle"

MainNext ==
    \/ MainReadConfig
    \/ MainParseFiles
    \/ DoNext
    \/ MainAfterUpload
    \/ MainInvalidate

MainSpec == MainInit /\ [][MainNext]_vars

\* main returns or dies, and until then the goroutines of upload.Do run fairly
MainFairSpec ==
    /\ MainInit
    /\ [][MainNext]_vars
    /\ WF_vars(MainReadConfig)
    /\ WF_vars(MainParseFiles)
    /\ WF_vars(MainAfterUpload)
    /\ WF_vars(MainInvalidate)
    /\ DoFairness

C8_EmptyListIsNoop ==
    invResult # NotReturned =>
        /\ cloudfront.Invalidation = <<>> => (requests = 0 /\ invResult = NoError)
        /\ (cloudfront.Invalidation # <<>> /\ cloudfront.Id # "" /\ ~dryRun) =>
               requests = 1

\* C9: main calls ParseFiles, upload.Do and invalidate.Do in that order, and an
\* error returned by a step ends the run: upload.Do is not called after
\* ParseFiles failed, invalidate.Do is not called after upload.Do failed
C9_StepOrder ==
    LET steps == <<"ParseFiles", "upload.Do", "invalidate.Do">>
        was(step) == \E i \in 1..Len(called) : called[i] = step
    IN  /\ Len(called) <= Len(steps)
        /\ called = SubSeq(steps, 1, Len(called))
        /\ parseErr # NotReturned => was("ParseFiles")
        /\ pcDo # "idle" => was("upload.Do")
        /\ (invResult # NotReturned \/ requests > 0) => was("invalidate.Do")
        /\ was("upload.Do") => parseErr = NoError
        /\ was("invalidate.Do") => (pcDo = "returned" /\ doResult = NoError)
        /\ parseErr \notin {NotReturned, NoError} => pcMain = "fatal"
        /\ (pcDo = "returned" /\ doResult # NoError) => pcMain \in {"uploadDo", "fatal"}
        /\ invResult \notin {NotReturned, NoError} => pcMain = "fatal"
        /\ pcMain = "exit" =>
               (parseErr = NoError /\ doResult = NoError /\ invResult = NoError)

\* C9 witness: upload.Do returned the error of a failed transfer and the run
\* ended without an invalidation
C9_Witness ==
    /\ pcMain = "fatal"
    /\ called = <<"ParseFiles", "upload.Do">>
    /\ pcDo = "returned"
    /\ doResult \in {failed[file] : file \in Failed}
    /\ requests = 0
    /\ invResult = NotReturned

\* C10: ParseFiles returns an error and no batch when the ignore pattern or the
\* regex of a metadata rule does not compile
C10_InvalidPatternError ==
    LET invalid == \/ CompileFails(cfgS3.Ignore)
                   \/ \E i \in 1..Len(cfgS3.Metadata) :
                         CompileFails(cfgS3.Metadata[i].Regex)
    IN  (parseErr # NotReturned /\ invalid) => (parseErr # NoError /\ files = NoFiles)

\* C20: when the POST of invalidate fails (client.Do returns an error and no
\* response), invalidate returns an error to its caller and the response is
\* not used: the process does not panic
C20_RequestFailureReturned ==
    (httpInv = "requestFails" /\ requests > 0) =>
        /\ pcMain # "panic"
        /\ invResult \notin {NotReturned, NoError}

\* -------------------------------------------------- hasFileChanged alone
\* the contents a file can have
FileContents == {"x", "y"}

\* the values of a DeltaProperties
DeltaProps == [ETag : {<<"m", c>> : c \in FileContents}, LastModified : 0..MaxTime]
\* the Delta maps over the keys KeyA and KeyB
DeltaMaps == UNION {[keys -> DeltaProps] : keys \in SUBSET {KeyA, KeyB}}
\* the local files at PathA
LocalEntries ==
    [path : {PathA}, isDir : {FALSE}, content : FileContents, modTime : 0..MaxTime,
     readable : BOOLEAN]

\* hasFileChanged is about to be called on a local file and a Delta map
DeltaInit ==
    /\ pcMain = "lib"
    /\ MainIdle
    /\ ParseIdle
    /\ InvalidateIdle
    /\ dryRun = FALSE
    /\ delta = TRUE
    /\ DoNotRunning
    /\ \E entry \in LocalEntries, deltaMap \in DeltaMaps :
         hfc = [applied |-> FALSE, entry |-> entry, deltaMap |-> deltaMap,
                uploadPath |-> getUploadPath(<<"d">>, entry.path),
                changed |-> FALSE, err |-> NotReturned]

\* upload.go:78: the call of hasFileChanged
ApplyHasFileChanged ==
    /\ ~hfc.applied
    /\ LET r == hasFileChanged(hfc.entry, hfc.deltaMap, hfc.uploadPath)
       IN  hfc' = [hfc EXCEPT !.applied = TRUE, !.changed = r.changed, !.err = r.err]
    /\ UNCHANGED <<pcMain, configFile, env, called, cfgS3, disk, s3Listing, parseErr,
                   cloudfront, httpInv, requests, invResult>>
    /\ UNCHANGED <<cfgParallel, bucketName, dryRun, delta, files, pcDo, poolSize,
                   pool, errors, finished, wg, pc, pcCloser, calls, failed, logger,
                   doResult>>

DeltaSpec == DeltaInit /\ [][ApplyHasFileChanged]_vars

\* the decision table of the delta mode: remote record present, hash equal,
\* local modification time after the record's; TRUE is "transfer"
DecisionTable(present, hashEqual, mtimeAfter) ==
    CASE ~present -> TRUE
      [] present /\ hashEqual -> FALSE
      [] present /\ ~hashEqual /\ mtimeAfter -> TRUE
      [] present /\ ~hashEqual /\ ~mtimeAfter -> FALSE

\* C7: hasFileChanged decides as the decision table does, for every local file
\* it can read and every Delta map
C7_DecisionTable ==
    (hfc.applied /\ hfc.entry.readable) =>
        LET present == hfc.uploadPath \in DOMAIN hfc.deltaMap
            record == hfc.deltaMap[hfc.uploadPath]
        IN  /\ hfc.err = NoError
            /\ hfc.changed =
                 DecisionTable(present,
                               present /\ <<"m", hfc.entry.content>> = record.ETag,
                               present /\ hfc.entry.modTime > record.LastModified)

\* C7 witness: a record with another hash and the same modification time: skip
C7_Witness ==
    /\ hfc.applied
    /\ hfc.entry.readable
    /\ hfc.uploadPath \in DOMAIN hfc.deltaMap
    /\ hfc.deltaMap[hfc.uploadPath].ETag # <<"m", hfc.entry.content>>
    /\ hfc.deltaMap[hfc.uploadPath].LastModified = hfc.entry.modTime
    /\ ~hfc.changed

\* ---------------------------------------------------- claims on ParseFiles
\* ParseFiles has returned a batch
Parsed == parseErr = NoError
\* the entries of the disk below the source directory
BelowSource == {entry \in disk : HasPrefix(entry.path, Clean(cfgS3.Source) \o <<"/">>)}

\* C11: without delta the batch is exactly the set of the files (not the
\* directories) of the source tree whose path does not match the ignore pattern
C11_BatchIsFilteredTree ==
    (Parsed /\ ~delta) =>
        /\ \A entry \in disk :
              (entry.isDir \/ MatchString(cfgS3.Ignore, entry.path))
                  => entry.path \notin DOMAIN files
        /\ \A entry \in BelowSource :
              (~entry.isDir /\ ~MatchString(cfgS3.Ignore, entry.path))
                  => entry.path \in DOMAIN files
        /\ DOMAIN files \subseteq {entry.path : entry \in BelowSource}

\* C11 witness: a file is kept, another one is ignored, a directory is left out
C11_Witness ==
    /\ Parsed
    /\ ~delta
    /\ PathA \in DOMAIN files
    /\ \E entry \in BelowSource :
          ~entry.isDir /\ MatchString(cfgS3.Ignore, entry.path)
    /\ \E entry \in BelowSource : entry.isDir

\* the headers of the first n rules for a string the rules are matched against:
\* those of the first n - 1 rules, then the headers of rule n if it matches
RECURSIVE HeadersOfRules(_, _, _)
HeadersOfRules(str, metadata, n) ==
    IF n = 0 THEN <<>>
    ELSE HeadersOfRules(str, metadata, n - 1)
            \o (IF MatchString(metadata[n].Regex, str) THEN metadata[n].Headers
                ELSE <<>>)

\* C12: the header list of a file of the batch is the concatenation, in the
\* order of the rules, of the header lists of the rules that match the file
C12_HeadersInRuleOrder ==
    Parsed => \A file \in DOMAIN files :
                 files[file] = HeadersOfRules(file, cfgS3.Metadata, Len(cfgS3.Metadata))

\* C12 witness: two rules with a header in common match a file, the second rule
\* has two headers
C12_Witness ==
    /\ Parsed
    /\ PathA \in DOMAIN files
    /\ Len(cfgS3.Metadata) = 2
    /\ cfgS3.Metadata[1].Headers = <<HeaderHtml>>
    /\ cfgS3.Metadata[2].Headers = <<HeaderCache, HeaderHtml>>
    /\ files[PathA] = <<HeaderHtml, HeaderCache, HeaderHtml>>

\* the response of S3 arrived and is XML, but no inventory can be built from it:
\* the root element is missing, or an element lacks its key, hash or timestamp,
\* or a timestamp does not parse
Malformed(listing) ==
    /\ listing.requestOK
    /\ listing.xmlOK
    /\ \/ ~listing.hasRoot
       \/ \E i \in DOMAIN listing.contents :
             \/ {"LastModified", "ETag", "Key"} \ listing.contents[i].elements # {}
             \/ ~listing.contents[i].LastModified.valid

\* ParseFiles got as far as the call of getDeltaMap (upload.go:55..66 passed)
ReachesDelta ==
    /\ cfgS3.Source # <<>>
    /\ StatOK(disk, cfgS3.Source)
    /\ ~CompileFails(cfgS3.Ignore)

\* C13: in delta mode a malformed listing makes getDeltaMap return an error and
\* no inventory, and ParseFiles return an error (that of getDeltaMap when it is
\* called) and no batch: upload.Do is never called
C13_MalformedInventoryIsFatal ==
    (delta /\ Malformed(s3Listing)) =>
        /\ getDeltaMap(s3Listing).err # NoError
        /\ getDeltaMap(s3Listing).deltaMap = EmptyDelta
        /\ ParseFiles(cfgS3, delta, disk, s3Listing).files = NoFiles
        /\ parseErr # NotReturned =>
              /\ parseErr # NoError
              /\ ReachesDelta => parseErr = getDeltaMap(s3Listing).err
              /\ files = NoFiles
              /\ pcMain = "fatal"
              /\ pcDo = "idle"

\* C13 witness: the second element of the listing has a bad date, the first one
\* is good, the tree has files, and ParseFiles has returned the date error
C13_Witness ==
    /\ delta
    /\ Malformed(s3Listing)
    /\ Len(s3Listing.contents) = 2
    /\ ReachesDelta
    /\ \E entry \in BelowSource : Candidate(entry, cfgS3.Ignore)
    /\ parseErr = DateError

\* every regex of the metadata rules compiles
RulesCompile ==
    \A i \in 1..Len(cfgS3.Metadata) : ~CompileFails(cfgS3.Metadata[i].Regex)

\* C16: a listing with the root element and no Contents element is accepted by
\* getDeltaMap with an empty inventory, and in delta mode ParseFiles then
\* selects every file of the source tree that is not ignored
C16_EmptyListingAccepted ==
    (/\ delta
     /\ s3Listing = GoodListing(<<>>)
     /\ parseErr # NotReturned
     /\ ReachesDelta
     /\ RulesCompile) =>
        /\ getDeltaMap(s3Listing).err = NoError
        /\ getDeltaMap(s3Listing).deltaMap = EmptyDelta
        /\ Parsed
        /\ DOMAIN files = {entry.path : entry \in
                             {e \in BelowSource : Candidate(e, cfgS3.Ignore)}}

\* C17: the headers of a file of the batch are those of the rules that match
\* its upload key, the path without the source prefix
C17_RulesMatchUploadKey ==
    Parsed => \A file \in DOMAIN files :
                 files[file] = HeadersOfRules(getUploadPath(cfgS3.Source, file),
                                              cfgS3.Metadata, Len(cfgS3.Metadata))

====
